---- MODULE Spec2Model ----
(***************************************************************************)
(* Mission Control task board: the PostgreSQL/PostgREST task repository    *)
(* (db/init.sql), the Next.js proxy routes in front of it, and the Kanban  *)
(* board page with its drag-and-drop, detail panel and polling.            *)
(***************************************************************************)
EXTENDS Integers, Sequences, FiniteSets, TLC

\* ------------------------------------------------------------------ bounds
MaxBoardTasks == 1   \* task ids handed out in Spec
MaxTasks == 2        \* task ids handed out in SpecRepo
MaxListTasks == 4    \* task ids handed out in SpecList
MaxViewTasks == 3    \* length of the task list given to the board in SpecView
MaxTime == 2         \* last value of the clock in Spec / SpecRepo
MaxListTime == 4     \* last value of the clock in SpecList
MaxSteps == 2        \* step ids handed out
MaxReviews == 2      \* review ids handed out
MaxInFlight == 2     \* requests of one kind in flight at the same time
MaxBoardInFlight == 1 \* the same, in Spec, SpecDetail and SpecPoll
MaxProxyTasks == 2   \* task ids handed out in SpecProxy
MaxDetailTasks == 2  \* task ids handed out in SpecDetail
MaxPollTasks == 1    \* task ids handed out in SpecPoll
MaxMoveTasks == 1    \* task ids handed out in SpecMoves
MaxFetchTasks == 2   \* task ids handed out in SpecFetch
MaxPanelTasks == 2   \* task ids handed out in SpecPanel
MaxDetailInFlight == 2 \* detail fetches of the panel that may be pending at once
MaxPathLen == 4      \* pieces of a file path given to readWorkspaceFile
MaxNameLen == 2      \* characters of an agent's name or id

\* ------------------------------------------------------------ value spaces
NULL == 0
Undefined == "undefined"

TaskStatuses == {"inbox", "in_progress", "review", "done"}
TaskPriorities == {"low", "medium", "high", "critical"}
ReviewBuckets == {"all", "approval_needed", "blocked"}
DetailButtons == {"in_progress", "done"}

\* values an agent may store under metadata.review_reason (Undefined: no key)
ReviewReasons == {Undefined, "", "needs approval"}

readOnly == FALSE

VARIABLES
    now,          \* the clock read by now() and new Date()
    dbTasks,      \* api.tasks: id -> row
    dbSteps,      \* api.task_steps: set of rows
    dbReviews,    \* api.task_reviews: set of rows
    taskSeq,      \* last value of tasks_id_seq
    stepSeq,      \* last value of task_steps_id_seq
    reviewSeq,    \* last value of task_reviews_id_seq
    resp,         \* the last HTTP response a caller received
    tasks,        \* TasksPage: tasks
    error,        \* TasksPage: error
    isLoading,    \* TasksPage: isLoading
    mounted,      \* TasksPage is mounted
    timers,       \* the active interval timers of the polling effect
    selectedTask, \* TasksPage: selectedTask
    showDetail,   \* TasksPage: showDetail
    reviewBucket, \* TaskBoard: reviewBucket
    taskDetail,   \* TaskDetail: steps, reviews, isLoading, the effect's deps, its pending fetches
    drag,         \* the dataTransfer payload of the drag in progress
    patches,      \* PATCH requests issued by the page and not yet answered
    fetches       \* GET /api/tasks requests of the page that are not yet answered

dbVars == <<dbTasks, dbSteps, dbReviews, taskSeq, stepSeq, reviewSeq>>
uiVars == <<tasks, error, isLoading, mounted, timers, selectedTask, showDetail, reviewBucket,
           taskDetail, drag, patches, fetches>>
vars == <<now, dbTasks, dbSteps, dbReviews, taskSeq, stepSeq, reviewSeq, resp,
          tasks, error, isLoading, mounted, timers, selectedTask, showDetail,
          reviewBucket, taskDetail, drag, patches, fetches>>

NoTask == [id |-> NULL]

\* TaskDetail as it is mounted: no steps, no reviews, not loading, the effect has
\* run for a closed panel without a task
NoDetail ==
    [steps |-> <<>>, reviews |-> <<>>, isLoading |-> FALSE,
     deps |-> [open |-> FALSE, id |-> NULL], fetches |-> {}]
NoDrag == [taskId |-> "", status |-> ""]
NoResp == [op |-> "none", id |-> NULL, req |-> <<>>, status |-> NULL, body |-> <<>>]

\* ---------------------------------------------------------------- helpers
Digits == <<"0", "1", "2", "3", "4", "5", "6", "7", "8", "9">>

RECURSIVE IdToString(_)
IdToString(n) ==
    IF n < 10 THEN Digits[n + 1]
    ELSE IdToString(n \div 10) \o Digits[(n % 10) + 1]

\* the bigint PostgREST reads from "id=eq.<s>"
ParseId(s) ==
    IF \E n \in 0..99 : IdToString(n) = s
    THEN CHOOSE n \in 0..99 : IdToString(n) = s
    ELSE NULL

\* JavaScript truthiness of metadata?.review_reason
Truthy(v) == v \notin {Undefined, ""}

PriorityRank(p) ==
    CASE p = "low" -> 1
      [] p = "medium" -> 2
      [] p = "high" -> 3
      [] p = "critical" -> 4

\* all orderings of the finite set S
RECURSIVE Orderings(_)
Orderings(S) ==
    IF S = {} THEN {<<>>}
    ELSE UNION { { <<x>> \o s : s \in Orderings(S \ {x}) } : x \in S }

\* ---------------------------------------------------------- the repository
\* a column of a row: the request body's value, or the column's DEFAULT
Field(body, f, default) == IF f \in DOMAIN body THEN body[f] ELSE default

\* NewTaskRow with the status column defaulting to the first working state
NewTaskRowDefaultInProgress(body) ==
    [id |-> taskSeq + 1,
     title |-> body.title,
     status |-> Field(body, "status", "in_progress"),
     priority |-> Field(body, "priority", "medium"),
     started_at |-> Field(body, "started_at", NULL),
     completed_at |-> Field(body, "completed_at", NULL),
     metadata |-> Field(body, "metadata", [review_reason |-> Undefined]),
     created_at |-> now]

\* CREATE TABLE api.tasks: the row an INSERT with this body stores
NewTaskRow(body) ==
    [id |-> taskSeq + 1,
     title |-> body.title,
     status |-> Field(body, "status", "inbox"),
     priority |-> Field(body, "priority", "medium"),
     started_at |-> Field(body, "started_at", NULL),
     completed_at |-> Field(body, "completed_at", NULL),
     metadata |-> Field(body, "metadata", [review_reason |-> Undefined]),
     created_at |-> now]

\* title TEXT NOT NULL, and the enum columns take only their labels
ValidTaskBody(body) ==
    /\ "title" \in DOMAIN body
    /\ Field(body, "status", "inbox") \in TaskStatuses
    /\ Field(body, "priority", "medium") \in TaskPriorities

\* POST /tasks with Prefer: return=representation
PostgrestInsertTask(body) ==
    IF ValidTaskBody(body)
    THEN /\ dbTasks' = [i \in DOMAIN dbTasks \cup {taskSeq + 1} |->
                          IF i = taskSeq + 1 THEN NewTaskRow(body) ELSE dbTasks[i]]
         /\ taskSeq' = taskSeq + 1
    ELSE UNCHANGED <<dbTasks, taskSeq>>

PostgrestInsertTaskResult(body) ==
    IF ValidTaskBody(body)
    THEN [status |-> 201, body |-> <<NewTaskRow(body)>>]
    ELSE [status |-> 400, body |-> <<>>]

\* TaskBefore with created_at ascending
TaskBeforeOldestFirst(a, b) ==
    \/ PriorityRank(a.priority) > PriorityRank(b.priority)
    \/ /\ PriorityRank(a.priority) = PriorityRank(b.priority)
       /\ a.created_at < b.created_at

\* ORDER BY priority DESC, created_at DESC: a must come before b
TaskBefore(a, b) ==
    \/ PriorityRank(a.priority) > PriorityRank(b.priority)
    \/ /\ PriorityRank(a.priority) = PriorityRank(b.priority)
       /\ a.created_at > b.created_at

\* GET /tasks?order=priority.desc,created_at.desc: every row order the store may
\* answer with (rows equal in both keys come in any order)
TasksQuery ==
    { [i \in DOMAIN o |-> dbTasks[o[i]]] : o \in
        { s \in Orderings(DOMAIN dbTasks) :
            \A i, j \in DOMAIN s : i < j => ~TaskBefore(dbTasks[s[j]], dbTasks[s[i]]) } }

\* CascadeDelete for a foreign key declared without ON DELETE CASCADE
CascadeDeleteNone(rows, id) == rows

\* ON DELETE CASCADE of task_steps.task_id / task_reviews.task_id
CascadeDelete(rows, id) == { r \in rows : r.task_id # id }

\* DELETE /tasks?id=eq.<id>
PostgrestDeleteTask(id) ==
    /\ dbTasks' = [i \in DOMAIN dbTasks \ {id} |-> dbTasks[i]]
    /\ dbSteps' = CascadeDelete(dbSteps, id)
    /\ dbReviews' = CascadeDelete(dbReviews, id)

\* ForeignKeyHolds for a task_id column declared without REFERENCES
ForeignKeyUnchecked(body) == TRUE

\* task_id BIGINT NOT NULL REFERENCES api.tasks(id)
ForeignKeyHolds(body) == body.task_id \in DOMAIN dbTasks

NewStepRow(body) ==
    [id |-> stepSeq + 1, task_id |-> body.task_id,
     sort_order |-> Field(body, "sort_order", 0), created_at |-> now]

NewReviewRow(body) ==
    [id |-> reviewSeq + 1, task_id |-> body.task_id, created_at |-> now]

\* GET /task_steps?task_id=eq.<id>&order=sort_order.asc
StepsQuery(id) ==
    LET rows == { r \in dbSteps : r.task_id = id }
    IN  { s \in Orderings(rows) :
            \A i, j \in DOMAIN s : i < j => s[i].sort_order <= s[j].sort_order }

\* GET /task_reviews?task_id=eq.<id>&order=created_at.desc
ReviewsQuery(id) ==
    LET rows == { r \in dbReviews : r.task_id = id }
    IN  { s \in Orderings(rows) :
            \A i, j \in DOMAIN s : i < j => s[i].created_at >= s[j].created_at }

\* PATCH /tasks?id=eq.<id>: the columns named in the body are overwritten
PatchedRow(row, body) ==
    [f \in DOMAIN row |-> IF f \in DOMAIN body THEN body[f] ELSE row[f]]

PostgrestPatchTask(id, body) ==
    dbTasks' = [i \in DOMAIN dbTasks |->
                  IF i = id THEN PatchedRow(dbTasks[i], body) ELSE dbTasks[i]]

\* ------------------------------------------------------- repository actions
\* the clock advances
Tick ==
    /\ now' = now + 1
    /\ UNCHANGED <<dbVars, resp, uiVars>>

\* the POST handler of /api/tasks; up: the proxy reaches PostgREST
ProxyPostTask(body, up) ==
    IF up
    THEN /\ PostgrestInsertTask(body)
         /\ resp' = [op |-> "POST /api/tasks", id |-> NULL, req |-> body,
                     status |-> PostgrestInsertTaskResult(body).status,
                     body |-> PostgrestInsertTaskResult(body).body]
    ELSE /\ UNCHANGED <<dbTasks, taskSeq>>
         /\ resp' = [op |-> "POST /api/tasks", id |-> NULL, req |-> body,
                     status |-> 502, body |-> <<>>]

\* POST /api/tasks sent by a caller other than the page
ApiPostTask(body, up) ==
    /\ ProxyPostTask(body, up)
    /\ UNCHANGED <<now, dbSteps, dbReviews, stepSeq, reviewSeq, uiVars>>

\* the GET handler of /api/tasks: the answers it can give
ProxyGetTasks(up) ==
    IF up
    THEN { [status |-> 200, body |-> rows] : rows \in TasksQuery }
    ELSE { [status |-> 502, body |-> <<>>] }

\* GET /api/tasks sent by a caller other than the page
ApiGetTasks(up) ==
    /\ \E a \in ProxyGetTasks(up) :
            resp' = [op |-> "GET /api/tasks", id |-> NULL, req |-> <<>>,
                     status |-> a.status, body |-> a.body]
    /\ UNCHANGED <<now, dbVars, uiVars>>

\* DELETE /api/tasks/:id (proxy route)
ApiDeleteTask(idParam, up) ==
    /\ IF up
       THEN /\ PostgrestDeleteTask(ParseId(idParam))
            /\ resp' = [op |-> "DELETE /api/tasks/:id", id |-> ParseId(idParam), req |-> <<>>, status |-> 200, body |-> <<>>]
       ELSE /\ UNCHANGED <<dbTasks, dbSteps, dbReviews>>
            /\ resp' = [op |-> "DELETE /api/tasks/:id", id |-> ParseId(idParam), req |-> <<>>, status |-> 502, body |-> <<>>]
    /\ UNCHANGED <<now, taskSeq, stepSeq, reviewSeq, uiVars>>

\* POST /task_steps, sent to PostgREST by an agent
PostStep(body) ==
    /\ IF ForeignKeyHolds(body)
       THEN /\ dbSteps' = dbSteps \cup {NewStepRow(body)}
            /\ stepSeq' = stepSeq + 1
            /\ resp' = [op |-> "POST /task_steps", id |-> body.task_id, req |-> body, status |-> 201, body |-> <<NewStepRow(body)>>]
       ELSE /\ UNCHANGED <<dbSteps, stepSeq>>
            /\ resp' = [op |-> "POST /task_steps", id |-> body.task_id, req |-> body, status |-> 409, body |-> <<>>]
    /\ UNCHANGED <<now, dbTasks, dbReviews, taskSeq, reviewSeq, uiVars>>

\* POST /task_reviews, sent to PostgREST by an agent
PostReview(body) ==
    /\ IF ForeignKeyHolds(body)
       THEN /\ dbReviews' = dbReviews \cup {NewReviewRow(body)}
            /\ reviewSeq' = reviewSeq + 1
            /\ resp' = [op |-> "POST /task_reviews", id |-> body.task_id, req |-> body, status |-> 201, body |-> <<NewReviewRow(body)>>]
       ELSE /\ UNCHANGED <<dbReviews, reviewSeq>>
            /\ resp' = [op |-> "POST /task_reviews", id |-> body.task_id, req |-> body, status |-> 409, body |-> <<>>]
    /\ UNCHANGED <<now, dbTasks, dbSteps, taskSeq, stepSeq, uiVars>>

\* GET /api/tasks/:id/steps (proxy route)
ApiGetSteps(idParam, up) ==
    /\ IF up
       THEN \E rows \in StepsQuery(ParseId(idParam)) :
                resp' = [op |-> "GET /api/tasks/:id/steps", id |-> ParseId(idParam), req |-> <<>>, status |-> 200, body |-> rows]
       ELSE resp' = [op |-> "GET /api/tasks/:id/steps", id |-> ParseId(idParam), req |-> <<>>, status |-> 502, body |-> <<>>]
    /\ UNCHANGED <<now, dbVars, uiVars>>

\* GET /task_reviews?task_id=eq.<id>&order=created_at.desc at PostgREST
GetReviews(idParam) ==
    /\ \E rows \in ReviewsQuery(ParseId(idParam)) :
            resp' = [op |-> "GET /task_reviews", id |-> ParseId(idParam), req |-> <<>>, status |-> 200, body |-> rows]
    /\ UNCHANGED <<now, dbVars, uiVars>>

\* the enum columns of a PATCH body take only their labels
ValidPatchBody(body) ==
    /\ Field(body, "status", "inbox") \in TaskStatuses
    /\ Field(body, "priority", "medium") \in TaskPriorities

\* the POST route of /api/tasks from request.json() on; parses: the request
\* body is JSON text (body is what it parses to)
ApiPostRequest(parses, body, up) ==
    IF parses
    THEN ApiPostTask(body, up)
    ELSE /\ resp' = [op |-> "POST /api/tasks", id |-> NULL, req |-> <<>>,
                     status |-> 502, body |-> <<>>]
         /\ UNCHANGED <<now, dbVars, uiVars>>

\* the PATCH route of /api/tasks/:id from request.json() on
ApiPatchRequest(idParam, parses, body, up) ==
    /\ IF parses /\ up /\ ValidPatchBody(body)
       THEN /\ PostgrestPatchTask(ParseId(idParam), body)
            /\ resp' = [op |-> "PATCH /api/tasks/:id", id |-> ParseId(idParam), req |-> body,
                        status |-> 200,
                        body |-> IF ParseId(idParam) \in DOMAIN dbTasks
                                 THEN <<PatchedRow(dbTasks[ParseId(idParam)], body)>>
                                 ELSE <<>>]
       ELSE /\ UNCHANGED dbTasks
            /\ resp' = [op |-> "PATCH /api/tasks/:id", id |-> ParseId(idParam),
                        req |-> IF parses THEN body ELSE <<>>,
                        status |-> IF parses /\ up THEN 400 ELSE 502, body |-> <<>>]
    /\ UNCHANGED <<now, dbSteps, dbReviews, taskSeq, stepSeq, reviewSeq, uiVars>>

\* ------------------------------------------------------------ initial state
\* an empty database and a page that has just been mounted: its polling effect
\* has called fetchTasks once
Init ==
    /\ now = 1
    /\ dbTasks = <<>>
    /\ dbSteps = {}
    /\ dbReviews = {}
    /\ taskSeq = 0
    /\ stepSeq = 0
    /\ reviewSeq = 0
    /\ resp = NoResp
    /\ tasks = <<>>
    /\ error = ""
    /\ isLoading = TRUE
    /\ mounted = TRUE
    /\ timers = {[sel |-> NULL]}
    /\ selectedTask = NoTask
    /\ showDetail = FALSE
    /\ reviewBucket = "all"
    /\ taskDetail = NoDetail
    /\ drag = NoDrag
    /\ patches = {}
    /\ fetches = {[n |-> 1, sel |-> NULL, after |-> {}, overtaken |-> FALSE]}

\* ------------------------------------------- SpecRepo: tasks, steps, reviews
RepoTaskBodies == { [title |-> "Implement X"] }

RepoCreateTask ==
    \E body \in RepoTaskBodies, up \in BOOLEAN : taskSeq < MaxTasks /\ ApiPostTask(body, up)
RepoDeleteTask == \E id \in 1..MaxTasks, up \in BOOLEAN : ApiDeleteTask(IdToString(id), up)
RepoCreateStep ==
    \E id \in 1..MaxTasks, so \in {0, 1} :
        stepSeq < MaxSteps /\ PostStep([task_id |-> id, sort_order |-> so])
RepoCreateReview ==
    \E id \in 1..MaxTasks : reviewSeq < MaxReviews /\ PostReview([task_id |-> id])
RepoListSteps == \E id \in 1..MaxTasks, up \in BOOLEAN : ApiGetSteps(IdToString(id), up)
RepoListReviews == \E id \in 1..MaxTasks : GetReviews(IdToString(id))
RepoTick == now < MaxTime /\ Tick

NextRepo ==
    \/ RepoTick
    \/ RepoCreateTask
    \/ RepoDeleteTask
    \/ RepoCreateStep
    \/ RepoCreateReview
    \/ RepoListSteps
    \/ RepoListReviews

SpecRepo == Init /\ [][NextRepo]_vars

\* --------------------------------------------- SpecList: createTask, listTasks
ListTaskBodies ==
    { [title |-> "Implement X", priority |-> p] : p \in TaskPriorities }
    \cup { [title |-> "Implement X", priority |-> "high", status |-> "review"] }

ListCreateTask ==
    \E body \in ListTaskBodies, up \in BOOLEAN : taskSeq < MaxListTasks /\ ApiPostTask(body, up)
ListTasks == \E up \in BOOLEAN : ApiGetTasks(up)
ListTick == now < MaxListTime /\ Tick

NextList ==
    \/ ListTick
    \/ ListCreateTask
    \/ ListTasks

SpecList == Init /\ [][NextList]_vars

\* ----------------------------------------------- SpecProxy: the proxy routes
ProxyTaskBodies ==
    { [title |-> t] : t \in {"", " ", "Implement X"} }
    \cup { [priority |-> "high"],
           [title |-> "Implement X", status |-> "archived"] }

ProxyPatchBodies == { [status |-> st] : st \in TaskStatuses \cup {"archived"} }

ProxyPost ==
    \E parses \in BOOLEAN, body \in ProxyTaskBodies, up \in BOOLEAN :
        taskSeq < MaxProxyTasks /\ ApiPostRequest(parses, body, up)
ProxyPatch ==
    \E id \in 1..MaxProxyTasks, parses \in BOOLEAN, body \in ProxyPatchBodies, up \in BOOLEAN :
        ApiPatchRequest(IdToString(id), parses, body, up)
ProxyDelete == \E id \in 1..MaxProxyTasks, up \in BOOLEAN : ApiDeleteTask(IdToString(id), up)
ProxyList == \E up \in BOOLEAN : ApiGetTasks(up)

NextProxy ==
    \/ ProxyPost
    \/ ProxyPatch
    \/ ProxyDelete
    \/ ProxyList

SpecProxy == Init /\ [][NextProxy]_vars

\* ------------------------------------------ SpecFiles: the workspace scanner
\* a path is a string, written as the sequence of its pieces: the separator,
\* the dot, and names without separator
PathPieces == {"/", ".", "home", ".openclaw", "-evil", "etc"}
sep == "/"

Paths == UNION { [1..n -> PathPieces] : n \in 0..MaxPathLen }

\* os.homedir() and process.cwd()
homeDir == <<"/", "home">>
Cwds == { <<"/", "home">>, <<"/", "home", "/", ".openclaw">>, <<"/", "etc">> }

\* String.prototype.startsWith
StartsWith(str, prefix) ==
    /\ Len(prefix) <= Len(str)
    /\ SubSeq(str, 1, Len(prefix)) = prefix

\* the segments of a path between its separators, empty ones included
RECURSIVE SplitPath(_)
SplitPath(str) ==
    IF \A i \in DOMAIN str : str[i] # sep THEN <<str>>
    ELSE LET i == CHOOSE k \in DOMAIN str :
                    str[k] = sep /\ \A j \in 1..(k - 1) : str[j] # sep
         IN  <<SubSeq(str, 1, i - 1)>> \o SplitPath(SubSeq(str, i + 1, Len(str)))

\* the segments left when "", "." and ".." are resolved from left to right
RECURSIVE NormalizeSegments(_, _)
NormalizeSegments(done, rest) ==
    IF rest = <<>> THEN done
    ELSE IF Head(rest) = <<>> \/ Head(rest) = <<".">>
         THEN NormalizeSegments(done, Tail(rest))
    ELSE IF Head(rest) = <<".", ".">>
         THEN NormalizeSegments(IF done = <<>> THEN done ELSE SubSeq(done, 1, Len(done) - 1),
                                Tail(rest))
    ELSE NormalizeSegments(Append(done, Head(rest)), Tail(rest))

\* the absolute path with these segments
RECURSIVE JoinSegments(_)
JoinSegments(segs) ==
    IF segs = <<>> THEN <<>>
    ELSE <<sep>> \o Head(segs) \o JoinSegments(Tail(segs))

\* path.join(homeDir, '.openclaw')
openclawDir == homeDir \o <<sep>> \o <<".openclaw">>

\* path.resolve(filePath) in a process whose working directory is cwd
PathResolve(cwd, filePath) ==
    LET full == IF StartsWith(filePath, <<sep>>) THEN filePath
                ELSE cwd \o <<sep>> \o filePath
        segs == NormalizeSegments(<<>>, SplitPath(full))
    IN  IF segs = <<>> THEN <<sep>> ELSE JoinSegments(segs)

\* isPathSafe with a prefix test that leaves the separator out
IsPathSafeWithoutSep(cwd, filePath) ==
    LET resolvedPath == PathResolve(cwd, filePath)
    IN  StartsWith(resolvedPath, openclawDir) \/ resolvedPath = openclawDir

\* isPathSafe
IsPathSafe(cwd, filePath) ==
    LET resolvedPath == PathResolve(cwd, filePath)
    IN  StartsWith(resolvedPath, openclawDir \o <<sep>>) \/ resolvedPath = openclawDir

\* readWorkspaceFile; exists: readFile finds the file. The response lists the
\* resolved paths readFile was called with
ReadWorkspaceFile(cwd, filePath, exists) ==
    /\ resp' = [op |-> "readWorkspaceFile", id |-> NULL,
                req |-> [cwd |-> cwd, filePath |-> filePath],
                status |-> IF ~IsPathSafe(cwd, filePath) THEN "Invalid file path"
                           ELSE IF exists THEN "content"
                           ELSE "File not found",
                body |-> IF ~IsPathSafe(cwd, filePath) THEN <<>>
                         ELSE <<PathResolve(cwd, filePath)>>]
    /\ UNCHANGED <<now, dbVars, uiVars>>

\* one call of readWorkspaceFile per behaviour
FilesRead ==
    \E cwd \in Cwds, filePath \in Paths, exists \in BOOLEAN :
        resp.op = "none" /\ ReadWorkspaceFile(cwd, filePath, exists)

NextFiles == FilesRead

SpecFiles == Init /\ [][NextFiles]_vars

\* ------------------------------------------------ SpecAvatar: agent avatars
\* a name or id is a string, written as the sequence of its characters
Chars == {"@", "A", "B", "G", "a", "b", "t", "1", "-"}

CharCode(c) ==
    CASE c = "@" -> 64
      [] c = "A" -> 65
      [] c = "B" -> 66
      [] c = "G" -> 71
      [] c = "T" -> 84
      [] c = "a" -> 97
      [] c = "b" -> 98
      [] c = "t" -> 116
      [] c = "1" -> 49
      [] c = "-" -> 45

ToUpperCase(c) ==
    CASE c = "a" -> "A"
      [] c = "b" -> "B"
      [] c = "t" -> "T"
      [] OTHER -> c

Names == UNION { [1..n -> Chars] : n \in 0..MaxNameLen }

\* the agents buildAgentList returns: a non-empty id, a name or none
Agents ==
    { [id |-> i] : i \in Names \ {<<>>} }
    \cup { [id |-> i, name |-> n] : i \in Names \ {<<>>}, n \in Names }

\* agent.name || agent.id
NameOrId(agent) ==
    IF "name" \in DOMAIN agent /\ agent.name # <<>> THEN agent.name ELSE agent.id

\* getAvatarPath with an index that starts at 0
GetAvatarPathFromZero(agent) ==
    LET firstChar == ToUpperCase(NameOrId(agent)[1])
        charCode == CharCode(firstChar)
        avatarIndex == charCode % 8
    IN  "/avatars/" \o IdToString(avatarIndex) \o ".png"

\* getAvatarPath
GetAvatarPath(agent) ==
    LET firstChar == ToUpperCase(NameOrId(agent)[1])
        charCode == CharCode(firstChar)
        avatarIndex == (charCode % 8) + 1
    IN  "/avatars/" \o IdToString(avatarIndex) \o ".png"

\* a caller asks for the avatar of an agent, once per behaviour
AvatarGet ==
    \E agent \in Agents :
        /\ resp.op = "none"
        /\ resp' = [op |-> "getAvatarPath", id |-> NULL, req |-> agent, status |-> NULL,
                    body |-> GetAvatarPath(agent)]
        /\ UNCHANGED <<now, dbVars, uiVars>>

NextAvatar == AvatarGet

SpecAvatar == Init /\ [][NextAvatar]_vars

\* ------------------------------------------------------------ the board page
\* TaskBoard.grouped: the bucket a task is pushed to
BucketOf(task) == IF task.status \in TaskStatuses THEN task.status ELSE "inbox"

\* Grouped for a board that leaves finished work out
GroupedWithoutDone(ts) ==
    [s \in TaskStatuses |->
        SelectSeq(ts, LAMBDA t : BucketOf(t) = s /\ t.status # "done")]

\* Grouped with every task put at the front of its bucket (unshift for push)
GroupedNewestFirst(ts) ==
    [s \in TaskStatuses |->
        LET b == SelectSeq(ts, LAMBDA t : BucketOf(t) = s)
        IN  [k \in 1..Len(b) |-> b[Len(b) + 1 - k]]]

\* TaskBoard.grouped: the four buckets, each in the order of the input list
Grouped(ts) ==
    [s \in TaskStatuses |-> SelectSeq(ts, LAMBDA t : BucketOf(t) = s)]

\* reviewCounts of the review column
ReviewCounts(columnTasks) ==
    [all |-> Len(columnTasks),
     approval_needed |-> Len(SelectSeq(columnTasks, LAMBDA t : Truthy(t.metadata.review_reason))),
     blocked |-> Len(SelectSeq(columnTasks, LAMBDA t : ~Truthy(t.metadata.review_reason)))]

\* FilteredTasksFor whose blocked filter asks for a missing key
FilteredTasksBlockedIfAbsent(bucket, status, columnTasks) ==
    IF status = "review" /\ bucket # "all"
    THEN SelectSeq(columnTasks, LAMBDA t :
            IF bucket = "approval_needed" THEN Truthy(t.metadata.review_reason)
            ELSE IF bucket = "blocked" THEN t.metadata.review_reason = Undefined
            ELSE TRUE)
    ELSE columnTasks

\* filteredTasks of a column when the sub-filter `bucket` is selected
FilteredTasksFor(bucket, status, columnTasks) ==
    IF status = "review" /\ bucket # "all"
    THEN SelectSeq(columnTasks, LAMBDA t :
            IF bucket = "approval_needed" THEN Truthy(t.metadata.review_reason)
            ELSE IF bucket = "blocked" THEN ~Truthy(t.metadata.review_reason)
            ELSE TRUE)
    ELSE columnTasks

\* filteredTasks of a column as rendered
FilteredTasks(status) == FilteredTasksFor(reviewBucket, status, Grouped(tasks)[status])

\* a click on one of the review sub-filter buttons
SetReviewBucket(bucket) ==
    /\ reviewBucket' = bucket
    /\ UNCHANGED <<now, dbVars, resp, tasks, error, isLoading, mounted, timers, selectedTask, showDetail, taskDetail, drag,
                   patches, fetches>>

\* the positions of the local task list that hold the task with this id string
LocalIndex(taskId) == { i \in DOMAIN tasks : IdToString(tasks[i].id) = taskId }

\* the status the local task list shows for this id string
LocalStatus(taskId) ==
    IF LocalIndex(taskId) = {} THEN "absent"
    ELSE tasks[CHOOSE i \in LocalIndex(taskId) : TRUE].status

\* a GET request in flight is told apart from an equal one by its slot
FreeFetchSlot == CHOOSE n \in 1..MaxInFlight : \A r \in fetches : r.n # n

\* fetchTasks up to its await: a request joins the ones in flight, with the
\* selectedTaskId its closure captured; after: the requests in flight that were
\* issued before it
FetchTasksCall(sel) ==
    /\ Cardinality(fetches) < MaxInFlight
    /\ fetches' = fetches \cup
                    {[n |-> FreeFetchSlot, sel |-> sel, after |-> { r.n : r \in fetches },
                      overtaken |-> FALSE]}

\* the requests in flight once the request r is over
FetchesWithout(r) ==
    { [x EXCEPT !.after = @ \ {r.n}, !.overtaken = @ \/ x.n \in r.after] :
        x \in fetches \ {r} }

\* an interval timer fires and calls the fetchTasks it was created with
Poll ==
    /\ \E t \in timers : FetchTasksCall(t.sel)
    /\ UNCHANGED <<now, dbVars, resp, tasks, error, isLoading, mounted, timers, selectedTask, showDetail,
                   reviewBucket, taskDetail, drag, patches>>

\* FetchTasksApply of a page that keeps its own copy of the rows it already has
FetchTasksApplyKeepingLocal(r, a) ==
    /\ fetches' = FetchesWithout(r)
    /\ IF a.status = 200
       THEN /\ tasks' = [i \in DOMAIN a.body |->
                           IF \E j \in DOMAIN tasks : tasks[j].id = a.body[i].id
                           THEN tasks[CHOOSE j \in DOMAIN tasks : tasks[j].id = a.body[i].id]
                           ELSE a.body[i]]
            /\ selectedTask' =
                 IF r.sel # NULL /\ \E i \in DOMAIN a.body : a.body[i].id = r.sel
                 THEN a.body[CHOOSE i \in DOMAIN a.body : a.body[i].id = r.sel]
                 ELSE selectedTask
            /\ error' = ""
       ELSE /\ error' = "Failed to fetch tasks"
            /\ UNCHANGED <<tasks, selectedTask>>
    /\ isLoading' = FALSE
    /\ UNCHANGED <<now, dbVars, resp, mounted, timers, showDetail, reviewBucket, taskDetail, drag, patches>>

\* FetchTasksApply of a page that stops polling when a fetch fails
FetchTasksApplyStoppingOnError(r, a) ==
    /\ fetches' = FetchesWithout(r)
    /\ IF a.status = 200
       THEN /\ tasks' = a.body
            /\ selectedTask' =
                 IF r.sel # NULL /\ \E i \in DOMAIN a.body : a.body[i].id = r.sel
                 THEN a.body[CHOOSE i \in DOMAIN a.body : a.body[i].id = r.sel]
                 ELSE selectedTask
            /\ error' = ""
            /\ UNCHANGED timers
       ELSE /\ error' = "Failed to fetch tasks"
            /\ timers' = {}
            /\ UNCHANGED <<tasks, selectedTask>>
    /\ isLoading' = FALSE
    /\ UNCHANGED <<now, dbVars, resp, mounted, showDetail, reviewBucket, taskDetail, drag, patches>>

\* fetchTasks after its await, for the request r and the proxy's answer a
FetchTasksApply(r, a) ==
    /\ fetches' = FetchesWithout(r)
    /\ IF a.status = 200
       THEN /\ tasks' = a.body
            /\ selectedTask' =
                 IF r.sel # NULL /\ \E i \in DOMAIN a.body : a.body[i].id = r.sel
                 THEN a.body[CHOOSE i \in DOMAIN a.body : a.body[i].id = r.sel]
                 ELSE selectedTask
            /\ error' = ""
       ELSE /\ error' = "Failed to fetch tasks"
            /\ UNCHANGED <<tasks, selectedTask>>
    /\ isLoading' = FALSE
    /\ UNCHANGED <<now, dbVars, resp, mounted, timers, showDetail, reviewBucket, taskDetail, drag,
                   patches>>

\* the proxy answers the request r and fetchTasks continues after its await
FetchTasksDone(r, up) ==
    /\ r \in fetches
    /\ "answer" \notin DOMAIN r
    /\ \E a \in ProxyGetTasks(up) : FetchTasksApply(r, a)

\* a PATCH request in flight is told apart from an equal one by its slot
FreeSlot == CHOOSE n \in 1..MaxInFlight : \A p \in patches : p.n # n

\* handleTaskMove: the body of its PATCH request
MoveBody(taskId, newStatus) ==
    IF newStatus = "in_progress"
    THEN [status |-> newStatus, started_at |-> now]
    ELSE IF newStatus = "done"
    THEN [status |-> newStatus, completed_at |-> now]
    ELSE [status |-> newStatus]

\* the optimistic update that also resets completed_at when a task leaves done
OptimisticClearingCompleted(t, newStatus) ==
    [t EXCEPT !.status = newStatus,
              !.started_at = IF newStatus = "in_progress" /\ t.started_at = NULL
                             THEN now ELSE @,
              !.completed_at = IF newStatus = "done" THEN now ELSE NULL]

\* handleTaskMove: the optimistic update of the moved task
Optimistic(t, newStatus) ==
    [t EXCEPT !.status = newStatus,
              !.started_at = IF newStatus = "in_progress" /\ t.started_at = NULL
                             THEN now ELSE @,
              !.completed_at = IF newStatus = "done" THEN now ELSE @]

\* HandleTaskMove of a page that puts the moved card first in its list
HandleTaskMoveToFront(taskId, newStatus) ==
    /\ tasks' = [i \in 1..Len(SelectSeq(tasks, LAMBDA t : IdToString(t.id) = taskId)) |->
                   Optimistic(SelectSeq(tasks, LAMBDA t : IdToString(t.id) = taskId)[i],
                              newStatus)]
                \o SelectSeq(tasks, LAMBDA t : IdToString(t.id) # taskId)
    /\ Cardinality(patches) < MaxInFlight
    /\ patches' = patches \cup
                    {[n |-> FreeSlot, id |-> taskId, body |-> MoveBody(taskId, newStatus),
                      via |-> "board"]}

\* handleTaskMove(taskId, newStatus) up to the await of its PATCH
HandleTaskMove(taskId, newStatus) ==
    /\ tasks' = [i \in DOMAIN tasks |->
                   IF IdToString(tasks[i].id) = taskId
                   THEN Optimistic(tasks[i], newStatus) ELSE tasks[i]]
    /\ Cardinality(patches) < MaxInFlight
    /\ patches' = patches \cup
                    {[n |-> FreeSlot, id |-> taskId, body |-> MoveBody(taskId, newStatus),
                      via |-> "board"]}

\* handleDragStart of a card
HandleDragStart(i) ==
    /\ ~readOnly
    /\ i \in DOMAIN tasks
    /\ drag = NoDrag
    /\ drag' = [taskId |-> IdToString(tasks[i].id), status |-> tasks[i].status]
    /\ UNCHANGED <<now, dbVars, resp, tasks, error, isLoading, mounted, timers, selectedTask, showDetail,
                   reviewBucket, taskDetail, patches, fetches>>

\* the drag ends away from every column
HandleDragEnd ==
    /\ drag # NoDrag
    /\ drag' = NoDrag
    /\ UNCHANGED <<now, dbVars, resp, tasks, error, isLoading, mounted, timers, selectedTask, showDetail,
                   reviewBucket, taskDetail, patches, fetches>>

\* handleDrop of a board on which finished work cannot be reopened
HandleDropNoReopen(status) ==
    /\ ~readOnly
    /\ drag # NoDrag
    /\ drag.status # "done"
    /\ drag' = NoDrag
    /\ IF drag.status = status
       THEN UNCHANGED <<tasks, patches>>
       ELSE HandleTaskMove(drag.taskId, status)
    /\ UNCHANGED <<now, dbVars, resp, error, isLoading, mounted, timers, selectedTask, showDetail, reviewBucket, taskDetail, fetches>>

\* handleDrop on the column of `status`
HandleDrop(status) ==
    /\ ~readOnly
    /\ drag # NoDrag
    /\ drag' = NoDrag
    /\ IF drag.status = status
       THEN UNCHANGED <<tasks, patches>>
       ELSE HandleTaskMove(drag.taskId, status)
    /\ UNCHANGED <<now, dbVars, resp, error, isLoading, mounted, timers, selectedTask, showDetail, reviewBucket, taskDetail, fetches>>

\* HandleTaskSelect whose polling effect has no cleanup: the old timer stays
HandleTaskSelectLeakingTimer(i) ==
    /\ i \in DOMAIN tasks
    /\ selectedTask' = tasks[i]
    /\ showDetail' = TRUE
    /\ IF tasks[i].id # selectedTask.id
       THEN /\ FetchTasksCall(tasks[i].id)
            /\ timers' = timers \cup {[sel |-> tasks[i].id]}
       ELSE UNCHANGED <<fetches, timers>>
    /\ UNCHANGED <<now, dbVars, resp, tasks, error, isLoading, mounted, reviewBucket, taskDetail, drag,
                   patches>>

\* handleTaskSelect: a click on a card; when the selected id changed the polling
\* effect runs again: its cleanup clears the timer, then it calls fetchTasks and
\* creates a timer
HandleTaskSelect(i) ==
    /\ i \in DOMAIN tasks
    /\ selectedTask' = tasks[i]
    /\ showDetail' = TRUE
    /\ IF tasks[i].id # selectedTask.id
       THEN /\ FetchTasksCall(tasks[i].id)
            /\ timers' = {[sel |-> tasks[i].id]}
       ELSE UNCHANGED <<fetches, timers>>
    /\ UNCHANGED <<now, dbVars, resp, tasks, error, isLoading, mounted, reviewBucket, taskDetail, drag,
                   patches>>

\* the page is left: the cleanup of the polling effect clears the timer
Unmount ==
    /\ mounted
    /\ mounted' = FALSE
    /\ timers' = {}
    /\ UNCHANGED <<now, dbVars, resp, tasks, error, isLoading, selectedTask, showDetail,
                   reviewBucket, taskDetail, drag, patches, fetches>>

\* the drawer is closed
CloseDetail ==
    /\ showDetail
    /\ showDetail' = FALSE
    /\ UNCHANGED <<now, dbVars, resp, tasks, error, isLoading, mounted, timers, selectedTask, reviewBucket, taskDetail, drag,
                   patches, fetches>>

\* handleUpdateStatus up to the await of its PATCH
HandleUpdateStatus(newStatus) ==
    /\ showDetail
    /\ selectedTask # NoTask
    /\ Cardinality(patches) < MaxInFlight
    /\ patches' = patches \cup
                    {[n |-> FreeSlot, id |-> IdToString(selectedTask.id),
                      body |-> [status |-> newStatus], via |-> "detail"]}
    /\ UNCHANGED <<now, dbVars, resp, tasks, error, isLoading, mounted, timers, selectedTask, showDetail,
                   reviewBucket, taskDetail, drag, fetches>>

\* PATCH /api/tasks/:id (proxy route) answers, and the caller continues:
\* handleTaskMove ignores the answer, handleUpdateStatus refetches when it is ok
PatchAnswered(p, up) ==
    /\ p \in patches
    /\ patches' = patches \ {p}
    /\ IF up
       THEN PostgrestPatchTask(ParseId(p.id), p.body)
       ELSE UNCHANGED dbTasks
    /\ IF p.via = "detail" /\ up
       THEN FetchTasksCall(selectedTask.id)
       ELSE UNCHANGED fetches
    /\ UNCHANGED <<now, dbSteps, dbReviews, taskSeq, stepSeq, reviewSeq, resp, tasks, error, isLoading, mounted, timers,
                   selectedTask, showDetail, reviewBucket, taskDetail, drag>>

\* PatchThrows of a page whose failed move also clears the poll timer
PatchThrowsStoppingPoll(p) ==
    /\ p \in patches
    /\ patches' = patches \ {p}
    /\ timers' = {}
    /\ IF p.via = "board"
       THEN FetchTasksCall(selectedTask.id)
       ELSE UNCHANGED fetches
    /\ UNCHANGED <<now, dbVars, resp, tasks, error, isLoading, mounted, selectedTask,
                   showDetail, reviewBucket, taskDetail, drag>>

\* the PATCH request never reaches the proxy and fetch() rejects:
\* handleTaskMove refetches, handleUpdateStatus logs
PatchThrows(p) ==
    /\ p \in patches
    /\ patches' = patches \ {p}
    /\ IF p.via = "board"
       THEN FetchTasksCall(selectedTask.id)
       ELSE UNCHANGED fetches
    /\ UNCHANGED <<now, dbVars, resp, tasks, error, isLoading, mounted, timers, selectedTask, showDetail,
                   reviewBucket, taskDetail, drag>>

\* trim() of the titles the dialog is given
Trim(title) ==
    CASE title = " " -> ""
      [] title = " Implement X " -> "Implement X"
      [] OTHER -> title

\* CreateTaskDialog.handleSubmit, then handleTaskCreated when the POST is ok
HandleSubmit(title, status, priority, up) ==
    IF Trim(title) = ""
    THEN UNCHANGED vars
    ELSE /\ IF up
            THEN PostgrestInsertTask([title |-> Trim(title), description |-> NULL,
                                      status |-> status, priority |-> priority])
            ELSE UNCHANGED <<dbTasks, taskSeq>>
         /\ IF up THEN FetchTasksCall(selectedTask.id) ELSE UNCHANGED fetches
         /\ UNCHANGED <<now, dbSteps, dbReviews, stepSeq, reviewSeq, resp, tasks, error, isLoading, mounted, timers,
                        selectedTask, showDetail, reviewBucket, taskDetail, drag, patches>>

\* what TasksPage renders below its header
Rendered ==
    IF isLoading THEN "loading"
    ELSE IF error # "" THEN "error"
    ELSE IF Len(tasks) = 0 THEN "empty"
    ELSE "board"

\* ------------------------------------------------------ Spec: the board page
DialogTitles == {" ", "Implement X"}

\* the step leaves at most MaxBoardInFlight requests of each kind in flight
WithinBoard ==
    /\ Cardinality(patches') <= MaxBoardInFlight
    /\ Cardinality(fetches') <= MaxBoardInFlight

BoardTick == now < MaxTime /\ Tick
BoardPoll == Poll /\ WithinBoard
BoardSubmit ==
    \E title \in DialogTitles, status \in TaskStatuses, up \in BOOLEAN :
        taskSeq < MaxBoardTasks /\ HandleSubmit(title, status, "medium", up) /\ WithinBoard
BoardFetchDone == \E r \in fetches, up \in BOOLEAN : FetchTasksDone(r, up)
BoardDragStart == \E i \in DOMAIN tasks : HandleDragStart(i)
BoardDrop == \E status \in TaskStatuses : HandleDrop(status) /\ WithinBoard
BoardSelect == \E i \in DOMAIN tasks : HandleTaskSelect(i) /\ WithinBoard
BoardUpdateStatus == \E status \in DetailButtons : HandleUpdateStatus(status) /\ WithinBoard
BoardPatchAnswered == \E p \in patches, up \in BOOLEAN : PatchAnswered(p, up) /\ WithinBoard
BoardPatchThrows == \E p \in patches : PatchThrows(p) /\ WithinBoard

Next ==
    \/ BoardTick
    \/ BoardSubmit
    \/ BoardPoll
    \/ BoardFetchDone
    \/ BoardDragStart
    \/ HandleDragEnd
    \/ BoardDrop
    \/ BoardSelect
    \/ CloseDetail
    \/ BoardUpdateStatus
    \/ BoardPatchAnswered
    \/ BoardPatchThrows

Spec == Init /\ [][Next]_vars

\* ------------------------- SpecDetail: the detail panel while tasks are deleted
DetailSubmit ==
    \E status \in TaskStatuses, up \in BOOLEAN :
        /\ taskSeq < MaxDetailTasks
        /\ HandleSubmit("Implement X", status, "medium", up)
        /\ WithinBoard
DetailDelete == \E id \in 1..MaxDetailTasks, up \in BOOLEAN : ApiDeleteTask(IdToString(id), up)

NextDetail ==
    \/ DetailSubmit
    \/ DetailDelete
    \/ BoardPoll
    \/ BoardFetchDone
    \/ BoardSelect
    \/ CloseDetail

SpecDetail == Init /\ [][NextDetail]_vars

\* --------------------------- SpecPoll: the poll timer until the page is left
PollSubmit ==
    \E up \in BOOLEAN :
        /\ mounted
        /\ taskSeq < MaxPollTasks
        /\ HandleSubmit("Implement X", "inbox", "medium", up)
        /\ WithinBoard
PollDragStart == mounted /\ BoardDragStart
PollDrop == mounted /\ BoardDrop
PollSelect == mounted /\ BoardSelect
PollClose == mounted /\ CloseDetail

NextPoll ==
    \/ PollSubmit
    \/ BoardPoll
    \/ BoardFetchDone
    \/ PollDragStart
    \/ PollDrop
    \/ PollSelect
    \/ PollClose
    \/ BoardPatchAnswered
    \/ BoardPatchThrows
    \/ Unmount

SpecPoll == Init /\ [][NextPoll]_vars

\* ------------------------- SpecMoves: quick drags whose PATCHes are in flight
\* the requests the page has pending: two moves, one fetch
WithinMoves ==
    /\ Cardinality(patches') <= MaxInFlight
    /\ Cardinality(fetches') <= MaxBoardInFlight

MovesSubmit ==
    \E up \in BOOLEAN :
        /\ taskSeq < MaxMoveTasks
        /\ HandleSubmit("Implement X", "inbox", "medium", up)
        /\ WithinMoves
MovesPoll == Poll /\ WithinMoves
MovesDrop == \E status \in TaskStatuses : HandleDrop(status) /\ WithinMoves
MovesPatchAnswered == \E p \in patches, up \in BOOLEAN : PatchAnswered(p, up) /\ WithinMoves
MovesPatchThrows == \E p \in patches : PatchThrows(p) /\ WithinMoves

NextMoves ==
    \/ BoardTick
    \/ MovesSubmit
    \/ MovesPoll
    \/ BoardFetchDone
    \/ BoardDragStart
    \/ HandleDragEnd
    \/ MovesDrop
    \/ MovesPatchAnswered
    \/ MovesPatchThrows

SpecMoves == Init /\ [][NextMoves]_vars

\* ------------------- SpecFrame: moves on a board whose tasks may be deleted
FrameSubmit ==
    \E up \in BOOLEAN :
        /\ taskSeq < MaxDetailTasks
        /\ HandleSubmit("Implement X", "inbox", "medium", up)
        /\ WithinBoard
\* the columns cards are dropped on in SpecFrame
FrameColumns == {"in_progress", "done"}
FrameDrop == \E status \in FrameColumns : HandleDrop(status) /\ WithinBoard

NextFrame ==
    \/ FrameSubmit
    \/ DetailDelete
    \/ BoardPoll
    \/ BoardFetchDone
    \/ BoardDragStart
    \/ HandleDragEnd
    \/ FrameDrop
    \/ BoardPatchAnswered
    \/ BoardPatchThrows

SpecFrame == Init /\ [][NextFrame]_vars

\* ------------------ SpecFetch: fetches whose responses arrive in any order
\* GET /api/tasks is answered for the request r; the response is on its way
FetchAnswered(r, up) ==
    /\ r \in fetches
    /\ "answer" \notin DOMAIN r
    /\ \E a \in ProxyGetTasks(up) :
         fetches' = (fetches \ {r}) \cup
                      {[n |-> r.n, sel |-> r.sel, after |-> r.after,
                        overtaken |-> r.overtaken, answer |-> a]}
    /\ UNCHANGED <<now, dbVars, resp, tasks, error, isLoading, mounted, timers,
                   selectedTask, showDetail, reviewBucket, taskDetail, drag, patches>>

\* the response of the request r arrives and fetchTasks continues after its await
FetchDelivered(r) ==
    /\ r \in fetches
    /\ "answer" \in DOMAIN r
    /\ FetchTasksApply(r, r.answer)

FetchSubmit ==
    \E up \in BOOLEAN :
        /\ taskSeq < MaxFetchTasks
        /\ HandleSubmit("Implement X", "inbox", "medium", up)
FetchAnswer == \E r \in fetches, up \in BOOLEAN : FetchAnswered(r, up)
FetchDeliver == \E r \in fetches : FetchDelivered(r)

NextFetch ==
    \/ FetchSubmit
    \/ Poll
    \/ FetchAnswer
    \/ FetchDeliver

SpecFetch == Init /\ [][NextFetch]_vars

\* --------------------------- SpecPanel: the detail panel and its own fetches
\* the dependencies of TaskDetail's effect: [open, task?.id]
DetailDeps == [open |-> showDetail, id |-> selectedTask.id]

\* a render changed the dependencies and the effect has not run yet
EffectPending == taskDetail.deps # DetailDeps

FreeDetailSlot ==
    CHOOSE n \in 1..MaxDetailInFlight : \A f \in taskDetail.fetches : f.n # n

\* TaskDetail's effect: fetchTaskDetails(task.id) up to its await when the panel
\* is open on a task, the two lists are cleared when the panel is closed
DetailEffect ==
    /\ EffectPending
    /\ taskDetail' =
         IF showDetail /\ selectedTask # NoTask
         THEN [taskDetail EXCEPT !.deps = DetailDeps,
                                 !.isLoading = TRUE,
                                 !.fetches = @ \cup {[n |-> FreeDetailSlot,
                                                      id |-> selectedTask.id]}]
         ELSE IF ~showDetail
         THEN [taskDetail EXCEPT !.deps = DetailDeps, !.steps = <<>>, !.reviews = <<>>]
         ELSE [taskDetail EXCEPT !.deps = DetailDeps]
    /\ UNCHANGED <<now, dbVars, resp, tasks, error, isLoading, mounted, timers, selectedTask,
                   showDetail, reviewBucket, drag, patches, fetches>>

\* fetchTaskDetails after its await: both requests have settled; stepsOk and
\* reviewsOk: the response is ok (a rejected request sets nothing either)
DetailFetchDone(f, stepsOk, reviewsOk) ==
    /\ f \in taskDetail.fetches
    /\ \E newSteps \in (IF stepsOk THEN StepsQuery(ParseId(IdToString(f.id)))
                         ELSE {taskDetail.steps}),
          newReviews \in (IF reviewsOk THEN ReviewsQuery(ParseId(IdToString(f.id)))
                           ELSE {taskDetail.reviews}) :
         taskDetail' = [taskDetail EXCEPT !.steps = newSteps,
                                          !.reviews = newReviews,
                                          !.isLoading = FALSE,
                                          !.fetches = @ \ {f}]
    /\ UNCHANGED <<now, dbVars, resp, tasks, error, isLoading, mounted, timers, selectedTask,
                   showDetail, reviewBucket, drag, patches, fetches>>

PanelSubmit ==
    \E up \in BOOLEAN :
        /\ taskSeq < MaxPanelTasks
        /\ HandleSubmit("Implement X", "inbox", "medium", up)
        /\ WithinBoard
PanelCreateStep ==
    \E id \in 1..MaxPanelTasks : stepSeq < MaxSteps /\ PostStep([task_id |-> id, sort_order |-> 0])
PanelCreateReview ==
    \E id \in 1..MaxPanelTasks : reviewSeq < MaxReviews /\ PostReview([task_id |-> id])
PanelSelect == Cardinality(taskDetail.fetches) < MaxDetailInFlight /\ BoardSelect
PanelDetailDone ==
    \E f \in taskDetail.fetches, stepsOk \in BOOLEAN, reviewsOk \in BOOLEAN :
        DetailFetchDone(f, stepsOk, reviewsOk)

\* React runs a pending effect before it handles the next event
NextPanel ==
    \/ DetailEffect
    \/ ~EffectPending /\ PanelSubmit
    \/ ~EffectPending /\ PanelCreateStep
    \/ ~EffectPending /\ PanelCreateReview
    \/ ~EffectPending /\ BoardFetchDone
    \/ ~EffectPending /\ PanelSelect
    \/ ~EffectPending /\ CloseDetail
    \/ ~EffectPending /\ PanelDetailDone

SpecPanel == Init /\ [][NextPanel]_vars

\* -------------------------------------------- SpecView: the board as rendered
ViewTask(i, status, reason) ==
    [id |-> i, title |-> "Implement X", status |-> status, priority |-> "medium",
     started_at |-> NULL, completed_at |-> NULL,
     metadata |-> [review_reason |-> reason], created_at |-> 1]

\* the page shows a task list it fetched
InitView ==
    /\ \E n \in 0..MaxViewTasks :
        \E st \in [1..n -> TaskStatuses], rr \in [1..n -> ReviewReasons] :
            /\ tasks = [i \in 1..n |-> ViewTask(i, st[i], rr[i])]
            /\ dbTasks = tasks
            /\ taskSeq = n
    /\ now = 1
    /\ dbSteps = {}
    /\ dbReviews = {}
    /\ stepSeq = 0
    /\ reviewSeq = 0
    /\ resp = NoResp
    /\ error = ""
    /\ isLoading = FALSE
    /\ mounted = TRUE
    /\ timers = {[sel |-> NULL]}
    /\ selectedTask = NoTask
    /\ showDetail = FALSE
    /\ reviewBucket = "all"
    /\ taskDetail = NoDetail
    /\ drag = NoDrag
    /\ patches = {}
    /\ fetches = {}

ViewSetReviewBucket == \E bucket \in ReviewBuckets : SetReviewBucket(bucket)

NextView == ViewSetReviewBucket

SpecView == InitView /\ [][NextView]_vars

\* ------------------------------------------------- properties of the board
\* the tasks of a bucket, as positions of the input list
Positions(ts, bucket) == { i \in DOMAIN ts : \E k \in DOMAIN bucket : bucket[k] = ts[i] }

\* C1: grouping puts every task of the list in exactly one of the four buckets,
\* once, and the buckets hold nothing else
C1_GroupingPartition ==
    LET g == Grouped(tasks)
    IN  /\ DOMAIN g = TaskStatuses
        /\ \A i \in DOMAIN tasks :
             Cardinality({ <<s, k>> \in TaskStatuses \X (1..Len(tasks)) :
                             k \in DOMAIN g[s] /\ g[s][k] = tasks[i] }) = 1
        /\ \A s \in TaskStatuses : \A k \in DOMAIN g[s] : \E i \in DOMAIN tasks : g[s][k] = tasks[i]
        /\ \A s, t \in TaskStatuses : s # t => Positions(tasks, g[s]) \cap Positions(tasks, g[t]) = {}
        /\ Len(g["inbox"]) + Len(g["in_progress"]) + Len(g["review"]) + Len(g["done"]) = Len(tasks)

\* a list with a task in each of three buckets, one of them done
C1_Witness ==
    /\ Len(tasks) = 3
    /\ Len(Grouped(tasks)["done"]) = 1
    /\ Len(Grouped(tasks)["review"]) = 1
    /\ Len(Grouped(tasks)["inbox"]) = 1

\* the review bucket and the sub-buckets the two filters show
ReviewColumn == Grouped(tasks)["review"]
ApprovalNeeded == FilteredTasksFor("approval_needed", "review", ReviewColumn)
Blocked == FilteredTasksFor("blocked", "review", ReviewColumn)
InSeq(x, q) == \E k \in DOMAIN q : q[k] = x

\* exactly one of the two sub-buckets holds each review task, the counts add up,
\* and the all sub-bucket is the whole review bucket under every selected filter
ReviewPartition ==
    /\ \A k \in DOMAIN ReviewColumn :
         InSeq(ReviewColumn[k], ApprovalNeeded) # InSeq(ReviewColumn[k], Blocked)
    /\ ReviewCounts(ReviewColumn).approval_needed = Len(ApprovalNeeded)
    /\ ReviewCounts(ReviewColumn).blocked = Len(Blocked)
    /\ ReviewCounts(ReviewColumn).approval_needed + ReviewCounts(ReviewColumn).blocked
         = ReviewCounts(ReviewColumn).all
    /\ ReviewCounts(ReviewColumn).all = Len(ReviewColumn)
    /\ FilteredTasksFor("all", "review", ReviewColumn) = ReviewColumn
    /\ reviewBucket = "all" => FilteredTasks("review") = ReviewColumn

\* C6 as claimed: the sub-bucket is decided by whether review_reason is present
C6_ByPresence ==
    /\ ReviewPartition
    /\ \A k \in DOMAIN ReviewColumn :
         InSeq(ReviewColumn[k], ApprovalNeeded)
            <=> ReviewColumn[k].metadata.review_reason # Undefined

\* C6 amended: the sub-bucket is decided by whether review_reason is truthy
C6_ByTruthiness ==
    /\ ReviewPartition
    /\ \A k \in DOMAIN ReviewColumn :
         InSeq(ReviewColumn[k], ApprovalNeeded)
            <=> Truthy(ReviewColumn[k].metadata.review_reason)

\* the review column holds a task of each kind while a sub-filter is selected
C6_Witness ==
    /\ Len(ReviewColumn) = 3
    /\ \E k \in DOMAIN ReviewColumn : ReviewColumn[k].metadata.review_reason = ""
    /\ Len(ApprovalNeeded) = 1
    /\ Len(Blocked) = 2
    /\ reviewBucket = "blocked"
    /\ FilteredTasks("review") = Blocked

\* the PATCH requests a step issues
Issued == patches' \ patches

\* C2: a move whose target is the status the task list shows for the task
\* issues no PATCH
C2_NoOpMove ==
    [][\A p \in Issued : LocalStatus(p.id) # p.body.status]_vars

\* C3: a move into in_progress of a task whose started_at is set keeps it in the
\* task list and sends no started_at
C3_StartedAtKept ==
    [][\A p \in Issued :
         \A i \in LocalIndex(p.id) :
            tasks[i].started_at # NULL
            => /\ tasks'[i].started_at = tasks[i].started_at
               /\ "started_at" \notin DOMAIN p.body]_vars

\* C4: every move into done sends completed_at, set to the time of the move
C4_DoneSendsCompletedAt ==
    [][\A p \in Issued :
         p.body.status = "done"
         => ("completed_at" \in DOMAIN p.body /\ p.body.completed_at = now)]_vars

\* C5: no step clears a completed_at the repository holds; a move keeps the
\* length of the task list and clears no completed_at in it; a move to a status
\* other than done leaves every completed_at of the list unchanged and sends no
\* completed_at
C5_CompletedAtNeverCleared ==
    [][/\ \A id \in DOMAIN dbTasks \cap DOMAIN dbTasks' :
            dbTasks[id].completed_at # NULL => dbTasks'[id].completed_at # NULL
       /\ \A p \in Issued :
            /\ "completed_at" \in DOMAIN p.body
               => (p.body.status = "done" /\ p.body.completed_at # NULL)
            /\ DOMAIN tasks' = DOMAIN tasks
            /\ \A i \in DOMAIN tasks :
                 /\ tasks[i].completed_at # NULL => tasks'[i].completed_at # NULL
                 /\ p.body.status # "done"
                    => tasks'[i].completed_at = tasks[i].completed_at]_vars

\* a completed task was dragged out of done: the list shows it in the target
\* column with completed_at set, and the PATCH is on its way
C5_Witness ==
    \E i \in DOMAIN tasks, p \in patches :
        /\ p.via = "board"
        /\ p.id = IdToString(tasks[i].id)
        /\ p.body.status = tasks[i].status
        /\ tasks[i].status # "done"
        /\ tasks[i].completed_at # NULL
        /\ tasks[i].id \in DOMAIN dbTasks
        /\ dbTasks[tasks[i].id].status = "done"
        /\ dbTasks[tasks[i].id].completed_at = tasks[i].completed_at

\* ------------------------------------------------ properties of the repository
\* the task ids that were handed out and whose row is gone
DeletedTaskIds == (1..taskSeq) \ DOMAIN dbTasks

\* C7: after a task is deleted no step and no review of it is left, every answer
\* the store can give to a listing of its steps or reviews is the empty sequence,
\* and a listing the store answered came back 200 with an empty body
C7_CascadeDelete ==
    \A id \in DeletedTaskIds :
        /\ \A r \in dbSteps \cup dbReviews : r.task_id # id
        /\ StepsQuery(id) = {<<>>}
        /\ ReviewsQuery(id) = {<<>>}
        /\ (resp.op \in {"GET /api/tasks/:id/steps", "GET /task_reviews"}
              /\ resp.id = id /\ resp.status # 502)
           => (resp.status = 200 /\ resp.body = <<>>)

\* a task that owned a step and a review was deleted and its steps were listed
C7_Witness ==
    /\ resp.op = "GET /api/tasks/:id/steps"
    /\ resp.id \in DeletedTaskIds
    /\ resp.status = 200
    /\ taskSeq = 1
    /\ stepSeq > Cardinality(dbSteps)
    /\ reviewSeq > Cardinality(dbReviews)

\* C8: every step row and every review row references an existing task, and the
\* creation of a step or review is accepted exactly when its task exists
C8_ReferentialIntegrity ==
    /\ \A r \in dbSteps \cup dbReviews : r.task_id \in DOMAIN dbTasks
    /\ resp.op \in {"POST /task_steps", "POST /task_reviews"}
       => /\ resp.status = 201 <=> resp.id \in DOMAIN dbTasks
          /\ resp.status # 201 => (resp.status = 409 /\ resp.body = <<>>)

\* a step for a deleted task was rejected after the cascade removed its steps
C8_Witness ==
    /\ resp.op = "POST /task_steps"
    /\ resp.status = 409
    /\ DeletedTaskIds # {}
    /\ resp.id \in DeletedTaskIds
    /\ stepSeq > Cardinality(dbSteps)

\* C9: a listing that follows the creation of a task with a title, priority high
\* and no status contains that task with status inbox, priority high and
\* created_at set
C9_CreateThenList ==
    [][(/\ resp.op = "POST /api/tasks"
        /\ resp.status = 201
        /\ resp.req = [title |-> "Implement X", priority |-> "high"]
        /\ resp'.op = "GET /api/tasks"
        /\ resp'.status = 200)
       => \E i \in DOMAIN resp'.body :
            /\ resp'.body[i].id = resp.body[1].id
            /\ resp'.body[i].title = "Implement X"
            /\ resp'.body[i].status = "inbox"
            /\ resp'.body[i].priority = "high"
            /\ resp'.body[i].created_at # NULL]_vars

\* a listing shows a high-priority task in the inbox next to one created in review
C9_Witness ==
    /\ resp.op = "GET /api/tasks"
    /\ resp.status = 200
    /\ \E i, j \in DOMAIN resp.body :
        /\ resp.body[i].priority = "high" /\ resp.body[i].status = "inbox"
        /\ resp.body[j].priority = "high" /\ resp.body[j].status = "review"

\* the listing's rows, as task ids
RespIds == [i \in DOMAIN resp.body |-> resp.body[i].id]

\* the database of the example: priorities low, critical, medium, critical
\* created at increasing times
ExampleTasks ==
    /\ DOMAIN dbTasks = 1..4
    /\ [i \in 1..4 |-> dbTasks[i].priority] = <<"low", "critical", "medium", "critical">>
    /\ \A i \in 1..3 : dbTasks[i].created_at < dbTasks[i + 1].created_at

\* C10: a listing is ordered by priority descending and, within a priority, by
\* created_at descending; for the example it is critical (later), critical
\* (earlier), medium, low
C10_ListOrder ==
    (resp.op = "GET /api/tasks" /\ resp.status = 200)
    => /\ \A i, j \in DOMAIN resp.body :
            i < j =>
              \/ PriorityRank(resp.body[i].priority) > PriorityRank(resp.body[j].priority)
              \/ /\ resp.body[i].priority = resp.body[j].priority
                 /\ resp.body[i].created_at >= resp.body[j].created_at
       /\ ExampleTasks => RespIds = <<4, 2, 3, 1>>

\* the example database was listed
C10_Witness ==
    /\ resp.op = "GET /api/tasks"
    /\ resp.status = 200
    /\ ExampleTasks
    /\ RespIds = <<4, 2, 3, 1>>

\* ------------------------------------------------ properties of createTask
\* C11: no task row has an empty or whitespace-only title, and a create request
\* with such a title that reached the store was answered with a validation
\* error (400)
C11_EmptyTitleRejected ==
    /\ \A id \in DOMAIN dbTasks : Trim(dbTasks[id].title) # ""
    /\ (/\ resp.op = "POST /api/tasks"
        /\ "title" \in DOMAIN resp.req
        /\ Trim(resp.req.title) = ""
        /\ resp.status # 502)
       => resp.status = 400

\* ------------------------------------------------ properties of the moves
\* a card is being dragged whose status s, as shown and as carried by the drag,
\* is not t
DragsFrom(t) ==
    /\ drag # NoDrag
    /\ drag.status = LocalStatus(drag.taskId)
    /\ drag.status # t

PositionOf(t) == CHOOSE i \in DOMAIN tasks : tasks[i] = t

\* the sequence q keeps the order of the task list
KeepsListOrder(q) ==
    \A k, l \in DOMAIN q : k < l => PositionOf(q[k]) < PositionOf(q[l])

\* C13: two tasks of the same bucket stand in the bucket in the order they have
\* in the task list, and so do the tasks a column displays
C13_StablePartition ==
    \A s \in TaskStatuses :
        /\ KeepsListOrder(Grouped(tasks)[s])
        /\ KeepsListOrder(FilteredTasks(s))
        /\ \A bucket \in ReviewBuckets :
             KeepsListOrder(FilteredTasksFor(bucket, s, Grouped(tasks)[s]))

\* two review tasks with a done task between them in the list
C13_Witness ==
    /\ Len(tasks) = 3
    /\ tasks[1].status = "review"
    /\ tasks[2].status = "done"
    /\ tasks[3].status = "review"
    /\ Grouped(tasks)["review"] = <<tasks[1], tasks[3]>>

\* ------------------------------------------------ properties of the refresh
\* C14: while the PATCH of a move is in flight, the task list shows the moved
\* task with the status the move gave it
C14_NoClobber ==
    \A q \in patches :
        q.via = "board"
        => \A i \in LocalIndex(q.id) : tasks[i].status = q.body.status

\* the step issues a listTasks request of the page
FetchIssued == \E r \in fetches' : r \notin fetches /\ r.sel = selectedTask.id

\* C15: when the PATCH of a move fails, because the request throws or because
\* the answer is not a success, the page has a listTasks request in flight
C15_RefetchOnFailure ==
    [][\A q \in patches :
         (q.via = "board" /\ (PatchThrows(q) \/ PatchAnswered(q, FALSE)))
         => FetchIssued]_vars

\* the detail panel is on screen
DetailShown == showDetail /\ selectedTask # NoTask

\* C16: when a refresh is applied whose result lacks the task of the open
\* detail panel, the panel is closed
C16_DetailClosesOnDelete ==
    [][\A r \in fetches :
         (/\ FetchTasksDone(r, TRUE)
          /\ DetailShown
          /\ \A i \in DOMAIN tasks' : tasks'[i].id # selectedTask.id)
         => ~DetailShown']_vars

\* C17: a failed listTasks fetch leaves the task list unchanged, sets the inline
\* error, and a board that was rendered is still rendered
C17_FailedFetchKeepsBoard ==
    [][\A r \in fetches :
         FetchTasksDone(r, FALSE)
         => /\ tasks' = tasks
            /\ error' # ""
            /\ Rendered = "board" => Rendered' = "board"]_vars

\* C18: DELETE /api/tasks/:id for an id that has no row is not answered with
\* a success status
C18_DeleteNotFound ==
    [][\A id \in 1..MaxTasks :
         (ApiDeleteTask(IdToString(id), TRUE) /\ id \notin DOMAIN dbTasks)
         => resp'.status \notin {200, 201, 204}]_vars

\* C19: the POST and PATCH routes answer 502 exactly when the store is
\* unreachable, 400 to a body that is not JSON, 201 to a create the store
\* accepted, 200 to an update it accepted, and the store's 400 otherwise
C19_StatusCodes ==
    [][/\ \A parses \in BOOLEAN, body \in ProxyTaskBodies, up \in BOOLEAN :
            ApiPostRequest(parses, body, up)
            => /\ resp'.status = 502 <=> ~up
               /\ (up /\ ~parses) => resp'.status = 400
               /\ (up /\ parses)
                  => resp'.status = (IF ValidTaskBody(body) THEN 201 ELSE 400)
       /\ \A id \in 1..MaxProxyTasks, parses \in BOOLEAN, body \in ProxyPatchBodies,
              up \in BOOLEAN :
            ApiPatchRequest(IdToString(id), parses, body, up)
            => /\ resp'.status = 502 <=> ~up
               /\ (up /\ ~parses) => resp'.status = 400
               /\ (up /\ parses)
                  => resp'.status = (IF ValidPatchBody(body) THEN 200 ELSE 400)]_vars

\* C20: a step that creates a task from the dialog, and a step in which the
\* PATCH of a move or of a detail-panel button is answered with success,
\* leaves a listTasks request of the page in flight
C20_FetchAfterMutation ==
    [][/\ taskSeq' # taskSeq => FetchIssued
       /\ \A q \in patches : PatchAnswered(q, TRUE) => FetchIssued]_vars

\* ---------------------------------------- properties of the workspace scanner
\* the segments of the resolved path start with home, .openclaw
InsideOpenclaw(resolved) ==
    LET segs == NormalizeSegments(<<>>, SplitPath(resolved))
    IN  Len(segs) >= 2 /\ segs[1] = <<"home">> /\ segs[2] = <<".openclaw">>

\* C21: readWorkspaceFile answers 'Invalid file path', having read nothing,
\* exactly when the resolved path is neither ~/.openclaw nor below it; every
\* path it reads is ~/.openclaw or below it; isPathSafe is true exactly for
\* these paths
C21_ReadsOnlyInsideOpenclaw ==
    resp.op = "readWorkspaceFile"
    => LET inside == InsideOpenclaw(PathResolve(resp.req.cwd, resp.req.filePath))
       IN  /\ IsPathSafe(resp.req.cwd, resp.req.filePath) <=> inside
           /\ resp.status = "Invalid file path" <=> ~inside
           /\ ~inside => resp.body = <<>>
           /\ \A k \in DOMAIN resp.body : InsideOpenclaw(resp.body[k])

\* a relative path with .. that leaves ~/.openclaw was refused
C21_Witness ==
    /\ resp.op = "readWorkspaceFile"
    /\ resp.req.cwd = openclawDir
    /\ resp.req.filePath = <<".", ".", "/", "etc">>
    /\ resp.status = "Invalid file path"
    /\ resp.body = <<>>

\* ------------------------------------------------- properties of the avatars
\* the first character of the string the avatar is computed from, upper-cased
AvatarLetter(agent) ==
    ToUpperCase((IF "name" \in DOMAIN agent /\ agent.name # <<>>
                 THEN agent.name ELSE agent.id)[1])

\* C22: the avatar path is /avatars/N.png with N in 1..8 and N - 1 the char
\* code of the upper-cased first character (of the name, or of the id when the
\* name is undefined or empty) modulo 8; agents whose first characters differ
\* at most in case get the same path
C22_AvatarPath ==
    resp.op = "getAvatarPath"
    => /\ \E N \in 1..8 :
            /\ resp.body = "/avatars/" \o Digits[N + 1] \o ".png"
            /\ (CharCode(AvatarLetter(resp.req)) - (N - 1)) % 8 = 0
       /\ \A n \in Names \ {<<>>} :
            ToUpperCase(n[1]) = AvatarLetter(resp.req)
            => GetAvatarPath([id |-> resp.req.id, name |-> n]) = resp.body

\* an agent with an empty name got the avatar of its id's first letter, t
C22_Witness ==
    /\ resp.op = "getAvatarPath"
    /\ "name" \in DOMAIN resp.req
    /\ resp.req.name = <<>>
    /\ resp.req.id = <<"t", "-">>
    /\ resp.body = "/avatars/5.png"

\* ------------------------------------------------ properties of the poll timer
\* C23: at most one poll timer is active at any moment, and once the page is
\* left none is active and the timer can issue no fetch
C23_OnePollTimer ==
    /\ Cardinality(timers) <= 1
    /\ ~mounted => (timers = {} /\ ~ENABLED Poll)

\* the page was left after its timer had been re-created for a selected task
C23_Witness ==
    /\ ~mounted
    /\ timers = {}
    /\ selectedTask # NoTask
    /\ showDetail

\* C24: while the page is mounted a poll timer is active and can issue a fetch
\* (while the page may send a request), and a step in which the PATCH of a move
\* fails, thrown or answered with an error, leaves the timer as it is
C24_FailedMoveKeepsTimer ==
    /\ [](mounted => /\ timers # {}
                     /\ Cardinality(fetches) < MaxInFlight => ENABLED Poll)
    /\ [][\A q \in patches :
            (q.via = "board" /\ (PatchThrows(q) \/ PatchAnswered(q, FALSE)))
            => timers' = timers]_vars

\* a move failed with an error response (its optimistic started_at never reached
\* the store) and the timer is active
C24_Witness ==
    /\ mounted
    /\ timers # {}
    /\ patches = {}
    /\ \E i \in DOMAIN tasks :
        /\ tasks[i].status = "in_progress"
        /\ tasks[i].started_at # NULL
        /\ tasks[i].id \in DOMAIN dbTasks
        /\ dbTasks[tasks[i].id].started_at = NULL

\* C25: a fetch that fails leaves the poll timer active, and every fetch that
\* succeeds replaces the task list by the store's list and clears the error
C25_FailedPollRetried ==
    [][\A r \in fetches :
         /\ FetchTasksDone(r, FALSE)
            => (timers' = timers /\ (mounted => timers' # {}) /\ error' # "")
         /\ FetchTasksDone(r, TRUE)
            => (tasks' \in TasksQuery /\ error' = "")]_vars

\* a poll failed: the error is shown, the task list is kept, and the timer has
\* issued the next poll
C25_Witness ==
    /\ mounted
    /\ error # ""
    /\ Len(tasks) > 0
    /\ timers # {}
    /\ \E r \in fetches : \E t \in timers : r.sel = t.sel

C27_DropSetsStatus ==
    [][\A c \in TaskStatuses :
         (HandleDrop(c) /\ LocalIndex(drag.taskId) # {})
         => \A i \in LocalIndex(drag.taskId) : tasks'[i].status = c]_vars

\* ------------------------------------------ the frame of the optimistic update
\* the drop on column c calls handleTaskMove
MoveBy(c) == HandleDrop(c) /\ drag.status # c

\* C30: a move keeps the length and the order of the local list, every other
\* task, and every field of the moved task but status, started_at and
\* completed_at; a move for an id that is not in the list leaves the list as it is
C30_OptimisticFrame ==
    [][\A c \in FrameColumns :
         MoveBy(c) =>
           /\ Len(tasks') = Len(tasks)
           /\ \A i \in DOMAIN tasks :
                IF IdToString(tasks[i].id) = drag.taskId
                THEN /\ DOMAIN tasks'[i] = DOMAIN tasks[i]
                     /\ \A f \in DOMAIN tasks[i] \ {"status", "started_at", "completed_at"} :
                          tasks'[i][f] = tasks[i][f]
                ELSE tasks'[i] = tasks[i]
           /\ LocalIndex(drag.taskId) = {} => tasks' = tasks]_vars

\* the second of two cards was moved: its PATCH is pending and the first card
\* is still first
C30_Witness ==
    /\ Len(tasks) = 2
    /\ \E p \in patches :
        /\ p.via = "board"
        /\ IdToString(tasks[2].id) = p.id
        /\ tasks[2].status = p.body.status
        /\ tasks[1].status # p.body.status

\* ------------------------------------------------ two fetches in flight at once
\* C29: when the response of a fetch arrives after the response of a fetch that
\* was issued later has been applied with success, the local task list stays the
\* result of the fetch issued later
C29_LaterFetchWins ==
    [][\A r \in fetches :
         (FetchDelivered(r) /\ r.overtaken /\ error = "") => tasks' = tasks]_vars

\* ------------------------------------------------- the detail panel's two lists
\* C28: an open panel that is not loading shows only steps and reviews of the
\* selected task, and a closed panel has no steps and no reviews
C28_DetailOfSelectedTask ==
    ~EffectPending =>
      /\ (showDetail /\ selectedTask # NoTask /\ ~taskDetail.isLoading)
         => /\ \A i \in DOMAIN taskDetail.steps :
                 taskDetail.steps[i].task_id = selectedTask.id
            /\ \A i \in DOMAIN taskDetail.reviews :
                 taskDetail.reviews[i].task_id = selectedTask.id
      /\ ~showDetail => (taskDetail.steps = <<>> /\ taskDetail.reviews = <<>>)

====
